---- MODULE Spec2Model ----
(***************************************************************************)
(* The snake game of src/src/main.rs as a state machine.                   *)
(*                                                                         *)
(* One "pass" is one run of the Update schedule (main.rs:93-103).  The     *)
(* systems of the schedule are the actions; inside a pass they run in any  *)
(* order that respects the .before/.after edges of the schedule.  Commands *)
(* (spawn, despawn) are deferred: they are applied at the synchronisation  *)
(* point the scheduler inserts on the edge snake_eating -> snake_growth    *)
(* (the only ordered edge whose source has Commands) and at the end of the *)
(* schedule.  Events are kept in a double buffer that is rotated between   *)
(* passes; each reading system has its own cursor.                         *)
(***************************************************************************)
EXTENDS Integers, Sequences, FiniteSets, TLC

\* ------------------------------------------------------------------ bounds

\* Number of passes of the Update schedule that are explored.
MaxPasses == 10

\* Frame times (ms) a pass may take: a short frame and the longest frame the
\* engine's clock reports.
Deltas == {10, 250}

\* Number of frames shorter than the movement period that are explored.
MaxShort == 1

\* random::<f32>() as a fraction r / RandomDen of [0, 1), and the pairs of
\* random values food_spawner draws in the explored runs (0.35 and 0.45).
RandomDen == 100
FoodDraws == {[x |-> 35, y |-> 35], [x |-> 35, y |-> 45]}

\* ------------------------------------------------------- program constants

ARENA_WIDTH == 10
ARENA_HEIGHT == 10
MOVE_PERIOD_MS == 150
FOOD_PERIOD_MS == 1000

Directions == {"Left", "Right", "Up", "Down"}

\* food_spawner: (random::<f32>() * size as f32) as i32, a truncating cast.
FoodCoord(r, size) == (r * size) \div RandomDen

\* The cells food_spawner spawns food on for the explored draws.
FoodCells == {[x |-> FoodCoord(r.x, ARENA_WIDTH), y |-> FoodCoord(r.y, ARENA_HEIGHT)] :
                r \in FoodDraws}

Systems == {"snake_input_moviment", "snake_movement", "snake_eating",
            "apply_deferred", "snake_growth", "game_over", "food_spawner"}

\* Mutant: the schedule has no ordering edges between the systems.
BeforeUnordered(s) == IF s = "apply_deferred" THEN {"snake_eating"} ELSE {}

\* Mutant: the synchronisation point sits before snake_eating.
BeforeSyncEarly(s) ==
    CASE s = "snake_input_moviment" -> {}
      [] s = "snake_movement"       -> {"snake_input_moviment"}
      [] s = "apply_deferred"       -> {"snake_movement"}
      [] s = "snake_eating"         -> {"apply_deferred"}
      [] s = "snake_growth"         -> {"snake_eating"}
      [] s = "game_over"            -> {"snake_movement"}
      [] s = "food_spawner"         -> {}

\* Mutant: game_over is not ordered after snake_movement.
BeforeResetFree(s) ==
    CASE s = "snake_input_moviment" -> {}
      [] s = "snake_movement"       -> {"snake_input_moviment"}
      [] s = "snake_eating"         -> {"snake_movement"}
      [] s = "apply_deferred"       -> {"snake_eating"}
      [] s = "snake_growth"         -> {"apply_deferred"}
      [] s = "game_over"            -> {}
      [] s = "food_spawner"         -> {}

\* The ordering edges of the Update schedule: Before[s] must have completed
\* (run or been skipped by its run condition) before s starts.
Before(s) ==
    CASE s = "snake_input_moviment" -> {}
      [] s = "snake_movement"       -> {"snake_input_moviment"}
      [] s = "snake_eating"         -> {"snake_movement"}
      [] s = "apply_deferred"       -> {"snake_eating"}
      [] s = "snake_growth"         -> {"apply_deferred"}
      [] s = "game_over"            -> {"snake_movement"}
      [] s = "food_spawner"         -> {}

VARIABLES
    world,          \* live entities: id -> [kind, pos, dir]
    segments,       \* SnakeSegments: sequence of entity ids, head first
    lastTail,       \* LastTailPosition: {} (None) or {pos} (Some(pos))
    growthEv,       \* unread GrowthEvents of snake_growth's reader: [a, b]
    overEv,         \* unread GameOverEvents of game_over's reader: [a, b]
    spawns,         \* deferred spawn commands not yet applied: id -> entity
    despawns,       \* deferred despawn commands not yet applied: set of ids
    moveElapsed,    \* elapsed ms of the movement timer
    foodElapsed,    \* elapsed ms of the food timer
    pc,             \* "boundary" between passes, "pass" inside one
    done,           \* systems completed (run or skipped) in the current pass
    passes,         \* passes started so far
    shorts,         \* short frames so far
    nextId,         \* the next entity identifier to reserve
    crashed,        \* a system panicked (unwrap of None)
    log             \* what the systems of the current pass did (observation only)

vars == <<world, segments, lastTail, growthEv, overEv, spawns, despawns,
          moveElapsed, foodElapsed, pc, done, passes, shorts, nextId, crashed, log>>

\* ----------------------------------------------------------------- helpers

Pos(x, y) == [x |-> x, y |-> y]

Range(s) == {s[i] : i \in DOMAIN s}

\* Mutant: a quarter turn instead of the opposite direction.
oppositeTurn(d) ==
    CASE d = "Left"  -> "Up"
      [] d = "Up"    -> "Right"
      [] d = "Right" -> "Down"
      [] d = "Down"  -> "Left"

opposite(d) ==
    CASE d = "Left"  -> "Right"
      [] d = "Right" -> "Left"
      [] d = "Up"    -> "Down"
      [] d = "Down"  -> "Up"

HeadEnt(p, d) == [kind |-> "head", pos |-> p, dir |-> d]
SegmentEnt(p) == [kind |-> "segment", pos |-> p, dir |-> "-"]
FoodEnt(p) == [kind |-> "food", pos |-> p, dir |-> "-"]

\* Query<.., With<SnakeHead>>, With<SnakeSegment>, With<Food> over a world w.
Heads(w)         == {e \in DOMAIN w : w[e].kind = "head"}
SnakeSegmentsOf(w) == {e \in DOMAIN w : w[e].kind \in {"head", "segment"}}
Foods(w)         == {e \in DOMAIN w : w[e].kind = "food"}

Min(S) == CHOOSE m \in S : \A n \in S : m <= n

\* Commands::spawn reserves an identifier no entity has or had: the k-th one
\* reserved by a system.
FreshId(k) == nextId + k

EmptyLog ==
    [raised   |-> {},     \* checks of snake_movement that sent a GameOverEvent
     moved    |-> <<>>,   \* <<[n, tail, head, food]>> of this pass's movement step
     queued   |-> 0,      \* GrowthEvents sent
     appended |-> 0,      \* segments appended by snake_growth
     stale    |-> 0,      \* of those, appended for an event of an earlier pass
     resets   |-> 0,      \* resets performed by game_over
     spawned  |-> {},     \* ids of food spawned by food_spawner
     heading  |-> "-"]    \* heading of the last movement step of the current
                          \* snake, "-" before its first (kept across passes)

NoEvents == [a |-> 0, b |-> 0]

\* EventWriter::send: the event goes to the newer buffer.
Send(ev, n) == [ev EXCEPT !.b = @ + n]

\* Events::update: the older buffer is dropped, the newer one becomes the older.
Update(ev) == [a |-> ev.b, b |-> 0]

\* Mutant: the reader's cursor does not advance.
TakeNone(ev) == ev

\* reader.read().next(): is there an unread event, and the queue after taking it
\* (the oldest unread event; the others stay unread).
HasEvent(ev) == ev.a + ev.b > 0
TakeOne(ev) == IF ev.a > 0 THEN [ev EXCEPT !.a = @ - 1] ELSE [ev EXCEPT !.b = @ - 1]

\* Timer::tick of a repeating timer.
TickFinished(elapsed, delta, period) == elapsed + delta >= period
TickElapsed(elapsed, delta, period) == (elapsed + delta) % period

\* Mutant: the movement timer never finishes.
MovementNeverDue(elapsed, delta) == FALSE

\* The run conditions of snake_movement and food_spawner.
MovementDue(elapsed, delta) == TickFinished(elapsed, delta, MOVE_PERIOD_MS)
FoodDue(elapsed, delta) == TickFinished(elapsed, delta, FOOD_PERIOD_MS)

\* Applying the deferred commands to a world.
Applied(w, sp, de) ==
    [e \in (DOMAIN w \ de) \cup DOMAIN sp |-> IF e \in DOMAIN sp THEN sp[e] ELSE w[e]]

\* Entity identifiers are opaque: between passes the live entities are renamed
\* to a canonical numbering (the list's entities first, in list order).
KindCode(k) == CASE k = "head" -> 1 [] k = "segment" -> 2 [] k = "food" -> 3

Key(w, e) == KindCode(w[e].kind) * 1000000 + (w[e].pos.x + 100) * 1000 + (w[e].pos.y + 100)

Rank(w, segs, e) ==
    IF e \in Range(segs)
    THEN Min({i \in DOMAIN segs : segs[i] = e})
    ELSE LET others == DOMAIN w \ Range(segs)
         IN  Len(segs) + 1
             + Cardinality({f \in others : \/ Key(w, f) < Key(w, e)
                                           \/ Key(w, f) = Key(w, e) /\ f < e})

Renamed(w, segs) ==
    LET new == {Rank(w, segs, e) : e \in DOMAIN w}
    IN  [j \in new |-> w[CHOOSE e \in DOMAIN w : Rank(w, segs, e) = j]]

RenamedList(w, segs) == [i \in DOMAIN segs |-> Rank(w, segs, segs[i])]

\* ---------------------------------------------------------------- startup

\* spawn_snake at Startup, its commands applied: head (3,3) heading Up, one
\* segment at (3,2); LastTailPosition::default() is None; no events.
Init ==
    /\ world = (1 :> HeadEnt(Pos(3, 3), "Up")) @@ (2 :> SegmentEnt(Pos(3, 2)))
    /\ segments = <<1, 2>>
    /\ lastTail = {}
    /\ growthEv = NoEvents
    /\ overEv = NoEvents
    /\ spawns = <<>>
    /\ despawns = {}
    /\ moveElapsed = 0
    /\ foodElapsed = 0
    /\ pc = "boundary"
    /\ done = {}
    /\ passes = 0
    /\ shorts = 0
    /\ nextId = 3
    /\ crashed = FALSE
    /\ log = EmptyLog

\* ------------------------------------------------------------- scheduling

Ready(s) == pc = "pass" /\ ~crashed /\ s \notin done /\ Before(s) \subseteq done

\* Start of a frame: time advances, both on_timer run conditions tick, the
\* event buffers rotate.  A timed system whose condition is false is skipped.
BeginPass ==
    /\ pc = "boundary"
    /\ ~crashed
    /\ passes < MaxPasses
    /\ \E delta \in Deltas :
        /\ (delta < MOVE_PERIOD_MS => shorts < MaxShort)
        /\ shorts' = IF delta < MOVE_PERIOD_MS THEN shorts + 1 ELSE shorts
        /\ moveElapsed' = TickElapsed(moveElapsed, delta, MOVE_PERIOD_MS)
        /\ foodElapsed' = TickElapsed(foodElapsed, delta, FOOD_PERIOD_MS)
        /\ done' = (IF MovementDue(moveElapsed, delta)
                    THEN {} ELSE {"snake_movement"})
                   \cup
                   (IF FoodDue(foodElapsed, delta)
                    THEN {} ELSE {"food_spawner"})
    /\ growthEv' = Update(growthEv)
    /\ overEv' = Update(overEv)
    /\ world' = Renamed(world, segments)
    /\ segments' = RenamedList(world, segments)
    /\ nextId' = Len(segments) + Cardinality(DOMAIN world \ Range(segments)) + 1
    /\ pc' = "pass"
    /\ passes' = passes + 1
    /\ log' = [EmptyLog EXCEPT !.heading = log.heading]
    /\ UNCHANGED <<lastTail, spawns, despawns, crashed>>

\* The synchronisation point between snake_eating and snake_growth.
apply_deferred ==
    /\ Ready("apply_deferred")
    /\ world' = Applied(world, spawns, despawns)
    /\ spawns' = <<>>
    /\ despawns' = {}
    /\ done' = done \cup {"apply_deferred"}
    /\ UNCHANGED <<segments, lastTail, growthEv, overEv, moveElapsed, foodElapsed,
                   pc, passes, shorts, nextId, crashed, log>>

\* End of the schedule: the remaining commands are applied.
EndPass ==
    /\ pc = "pass"
    /\ ~crashed
    /\ done = Systems
    /\ world' = Applied(world, spawns, despawns)
    /\ spawns' = <<>>
    /\ despawns' = {}
    /\ pc' = "boundary"
    /\ UNCHANGED <<segments, lastTail, growthEv, overEv, moveElapsed, foodElapsed,
                   done, passes, shorts, nextId, crashed, log>>

\* ------------------------------------------------------------ the systems

\* snake_input_moviment: the requested direction, by key precedence.
Requested(pressed, current) ==
    IF "Left" \in pressed THEN "Left"
    ELSE IF "Right" \in pressed THEN "Right"
    ELSE IF "Down" \in pressed THEN "Down"
    ELSE IF "Up" \in pressed THEN "Up"
    ELSE current

\* Mutant: a reversal is accepted.
AcceptedAny(current, dir) == dir

\* snake_input_moviment: the heading after a request.
Accepted(current, dir) == IF dir # opposite(current) THEN dir ELSE current

snake_input_moviment ==
    /\ Ready("snake_input_moviment")
    /\ \/ /\ Heads(world) = {}
          /\ UNCHANGED world
       \/ \E h \in Heads(world), pressed \in SUBSET Directions :
            world' = [world EXCEPT
                        ![h].dir = Accepted(@, Requested(pressed, @))]
    /\ done' = done \cup {"snake_input_moviment"}
    /\ UNCHANGED <<segments, lastTail, growthEv, overEv, spawns, despawns,
                   moveElapsed, foodElapsed, pc, passes, shorts, nextId, crashed, log>>

\* snake_movement: one unit step of the head.
Step(p, d) ==
    CASE d = "Left"  -> Pos(p.x - 1, p.y)
      [] d = "Right" -> Pos(p.x + 1, p.y)
      [] d = "Up"    -> Pos(p.x, p.y + 1)
      [] d = "Down"  -> Pos(p.x, p.y - 1)

\* Mutant: the lower edges are not checked.
OutOfBoundsHigh(p) == p.x >= ARENA_WIDTH \/ p.y >= ARENA_HEIGHT

\* Mutant: the upper edges are off by one.
OutOfBoundsLate(p) == p.x < 0 \/ p.y < 0 \/ p.x > ARENA_WIDTH \/ p.y > ARENA_HEIGHT

\* snake_movement: the boundary check.
OutOfBounds(p) == p.x < 0 \/ p.y < 0 \/ p.x >= ARENA_WIDTH \/ p.y >= ARENA_HEIGHT

\* Mutant: the tail's cell is left out of the comparison.
ContainsButTail(snap, p) == \E i \in 1..(Len(snap) - 1) : snap[i] = p

\* snake_movement: segment_positions.contains(&head_pos).
Contains(snap, p) == \E i \in DOMAIN snap : snap[i] = p

\* Mutant: the segment after index i keeps its own position.
ShiftSourceOwn(snap, i) == snap[i + 1]

\* snake_movement: the position written to the segment after index i of the
\* list (zip of the snapshot with the list without its first element).
ShiftSource(snap, i) == snap[i]

RECURSIVE ShiftBody(_, _, _, _)
ShiftBody(w, snap, segs, i) ==
    IF i >= Len(segs)
    THEN w
    ELSE ShiftBody([w EXCEPT ![segs[i + 1]].pos = ShiftSource(snap, i)], snap, segs, i + 1)

\* snake_movement: the value stored in LastTailPosition.
RecordedTail(snap) == snap[Len(snap)]

snake_movement ==
    /\ Ready("snake_movement")
    /\ done' = done \cup {"snake_movement"}
    /\ \/ /\ Heads(world) = {}
          /\ UNCHANGED <<world, lastTail, overEv, crashed, log>>
       \/ \E h \in Heads(world) :
            IF segments = <<>> \/ \E i \in DOMAIN segments : segments[i] \notin DOMAIN world
            THEN \* positions.get_mut(e).unwrap() or last().unwrap() panics
                 /\ crashed' = TRUE
                 /\ UNCHANGED <<world, lastTail, overEv, log>>
            ELSE LET snap == [i \in DOMAIN segments |-> world[segments[i]].pos]
                     newHead == Step(world[h].pos, world[h].dir)
                     boundary == OutOfBounds(newHead)
                     self == Contains(snap, newHead)
                     stepped == [world EXCEPT ![h].pos = newHead]
                 IN  /\ world' = ShiftBody(stepped, snap, segments, 1)
                     /\ overEv' = Send(overEv, (IF boundary THEN 1 ELSE 0)
                                               + (IF self THEN 1 ELSE 0))
                     /\ lastTail' = {RecordedTail(snap)}
                     /\ log' = [log EXCEPT
                                  !.raised = (IF boundary THEN {"boundary"} ELSE {})
                                             \cup (IF self THEN {"self"} ELSE {}),
                                  !.moved = <<[n    |-> Len(segments),
                                               tail |-> snap[Len(snap)],
                                               head |-> newHead,
                                               food |-> {f \in Foods(world) :
                                                           world[f].pos = newHead},
                                               dir  |-> world[h].dir,
                                               prev |-> log.heading]>>,
                                  !.heading = world[h].dir]
                     /\ UNCHANGED crashed
    /\ UNCHANGED <<segments, growthEv, spawns, despawns, moveElapsed, foodElapsed,
                   pc, passes, shorts, nextId>>

\* snake_eating: the (head, food) pairs on one cell.
Eaten(w) == {hf \in Heads(w) \X Foods(w) : w[hf[2]].pos = w[hf[1]].pos}

snake_eating ==
    /\ Ready("snake_eating")
    /\ despawns' = despawns \cup {hf[2] : hf \in Eaten(world)}
    /\ growthEv' = Send(growthEv, Cardinality(Eaten(world)))
    /\ log' = [log EXCEPT !.queued = @ + Cardinality(Eaten(world))]
    /\ done' = done \cup {"snake_eating"}
    /\ UNCHANGED <<world, segments, lastTail, overEv, spawns, moveElapsed,
                   foodElapsed, pc, passes, shorts, nextId, crashed>>

snake_growth ==
    /\ Ready("snake_growth")
    /\ done' = done \cup {"snake_growth"}
    /\ IF HasEvent(growthEv)
       THEN /\ growthEv' = TakeOne(growthEv)
            /\ IF lastTail = {}
               THEN \* last_tail_position.0.unwrap() panics
                    /\ crashed' = TRUE
                    /\ UNCHANGED <<segments, spawns, nextId, log>>
               ELSE LET g == FreshId(0)
                    IN  /\ spawns' = spawns @@ (g :> SegmentEnt(CHOOSE p \in lastTail : TRUE))
                        /\ segments' = Append(segments, g)
                        /\ nextId' = nextId + 1
                        /\ log' = [log EXCEPT
                                     !.appended = @ + 1,
                                     !.stale = @ + (IF growthEv.a > 0 THEN 1 ELSE 0)]
                        /\ UNCHANGED crashed
       ELSE UNCHANGED <<growthEv, segments, spawns, nextId, crashed, log>>
    /\ UNCHANGED <<world, lastTail, overEv, despawns, moveElapsed, foodElapsed,
                   pc, passes, shorts>>

\* spawn_snake: the two entities of a new snake.
SpawnHead == HeadEnt(Pos(3, 3), "Up")
SpawnSegment == SegmentEnt(Pos(3, 2))

game_over ==
    /\ Ready("game_over")
    /\ done' = done \cup {"game_over"}
    /\ IF HasEvent(overEv)
       THEN LET h == FreshId(0)
                s == FreshId(1)
            IN  /\ overEv' = TakeOne(overEv)
                /\ nextId' = nextId + 2
                /\ despawns' = despawns \cup Foods(world) \cup SnakeSegmentsOf(world)
                /\ spawns' = spawns @@ (h :> SpawnHead) @@ (s :> SpawnSegment)
                /\ segments' = <<h, s>>
                /\ log' = [log EXCEPT !.resets = @ + 1, !.heading = "-"]
       ELSE UNCHANGED <<overEv, despawns, spawns, segments, nextId, log>>
    /\ UNCHANGED <<world, lastTail, growthEv, moveElapsed, foodElapsed, pc, passes, shorts,
                   crashed>>

food_spawner ==
    /\ Ready("food_spawner")
    /\ done' = done \cup {"food_spawner"}
    /\ \E p \in FoodCells :
         LET f == FreshId(0)
         IN  /\ spawns' = spawns @@ (f :> FoodEnt(p))
             /\ nextId' = nextId + 1
             /\ log' = [log EXCEPT !.spawned = @ \cup {f}]
    /\ UNCHANGED <<world, segments, lastTail, growthEv, overEv, despawns,
                   moveElapsed, foodElapsed, pc, passes, shorts, crashed>>

Next ==
    \/ BeginPass
    \/ snake_input_moviment
    \/ snake_movement
    \/ snake_eating
    \/ apply_deferred
    \/ snake_growth
    \/ game_over
    \/ food_spawner
    \/ EndPass

Spec == Init /\ [][Next]_vars

\* ------------------------------------------------------------ observation

\* A pass has completed and its deferred commands are applied.
AfterPass == pc = "boundary" /\ passes > 0

\* A pass in which game_over processed a GameOverEvent has completed.
AfterReset == AfterPass /\ log.resets > 0

\* The snake as the list describes it: is every listed entity live, and where.
ListLive == \A i \in DOMAIN segments : segments[i] \in DOMAIN world
ListPositions == [i \in DOMAIN segments |-> world[segments[i]].pos]

\* C1: after a pass in which game_over processed a GameOverEvent, the list is
\* exactly a head at (3,3) heading Up followed by one segment at (3,2).
C1_ResetLeavesFreshSnake ==
    AfterReset =>
        /\ Len(segments) = 2
        /\ ListLive
        /\ world[segments[1]] = [kind |-> "head", pos |-> [x |-> 3, y |-> 3], dir |-> "Up"]
        /\ world[segments[2]] = [kind |-> "segment", pos |-> [x |-> 3, y |-> 2], dir |-> "-"]

\* C2: after a pass in which game_over processed a GameOverEvent, no food
\* entity is live.
C2_ResetLeavesNoFood == AfterReset => Foods(world) = {}

\* C3: when the movement step of a pass leaves the head on the cell of live
\* food, then by the end of the pass exactly one GrowthEvent was queued, that
\* food is gone, and the list is one longer with its last segment on the cell
\* the tail had before the move.
C3_EatingGrowsByOne ==
    (AfterPass /\ log.moved # <<>> /\ log.moved[1].food # {}) =>
        /\ log.queued = 1
        /\ log.moved[1].food \cap DOMAIN world = {}
        /\ Len(segments) = log.moved[1].n + 1
        /\ ListLive
        /\ ListPositions[Len(segments)] = log.moved[1].tail
        /\ lastTail = {log.moved[1].tail}

C10_HeadApartFromBody ==
    AfterPass =>
        /\ Len(segments) >= 2
        /\ ListLive
        /\ \A i \in 2..Len(segments) : ListPositions[i] # ListPositions[1]

\* ----------------------------------------------------- the movement step

\* The step of a pass in which snake_movement runs.
MovementRuns == pc = "pass" /\ "snake_movement" \notin done /\ "snake_movement" \in done'

\* The unit vector the claims give for a heading.
UnitX(d) == IF d = "Left" THEN -1 ELSE IF d = "Right" THEN 1 ELSE 0
UnitY(d) == IF d = "Up" THEN 1 ELSE IF d = "Down" THEN -1 ELSE 0

\* C4: one run of snake_movement on a list with positions p1 (head) .. pn
\* (tail) puts the head on p1 plus the unit vector of its heading, puts every
\* later segment i on p(i-1), stores pn in LastTailPosition, and changes
\* nothing else: list, headings, and every other entity stay as they were.
C4_MovementShiftsSnake ==
    [][MovementRuns =>
        LET n == Len(segments)
            p == ListPositions
            h == segments[1]
        IN  /\ ~crashed'
            /\ world'[h].pos = [x |-> p[1].x + UnitX(world[h].dir),
                                y |-> p[1].y + UnitY(world[h].dir)]
            /\ \A i \in 2..n : world'[segments[i]].pos = p[i - 1]
            /\ lastTail' = {p[n]}
            /\ segments' = segments
            /\ DOMAIN world' = DOMAIN world
            /\ \A e \in DOMAIN world :
                 /\ world'[e].kind = world[e].kind
                 /\ world'[e].dir = world[e].dir
                 /\ e \notin Range(segments) => world'[e] = world[e]
    ]_vars

\* A movement step has run in this pass on a snake of at least three segments.
C4_Witness ==
    /\ pc = "pass"
    /\ log.moved # <<>>
    /\ log.moved[1].n >= 3
    /\ "snake_eating" \notin done

\* C5: in a movement step the self-collision check sends a GameOverEvent
\* exactly when the new head position is the pre-move position of a segment
\* other than the head, the tail included.
C5_SelfCollisionIffBodyCell ==
    [][MovementRuns =>
        LET p == ListPositions
            hit == \E i \in 2..Len(segments) : p[i] = world'[segments[1]].pos
        IN  /\ ("self" \in log'.raised) <=> hit
            /\ hit => overEv'.b > overEv.b
    ]_vars

\* The head has moved onto the cell its tail had before the move, and the
\* self-collision check fired.
C5_Witness ==
    /\ log.moved # <<>>
    /\ log.moved[1].head = log.moved[1].tail
    /\ log.raised = {"self"}

\* C6: in a movement step the boundary check sends a GameOverEvent exactly
\* when the new head position has x < 0, x >= 10, y < 0 or y >= 10; a step
\* that raises nothing sends nothing.
C6_BoundaryIffOutside ==
    [][MovementRuns =>
        LET q == world'[segments[1]].pos
            outside == q.x < 0 \/ q.x >= 10 \/ q.y < 0 \/ q.y >= 10
        IN  /\ ("boundary" \in log'.raised) <=> outside
            /\ outside => overEv'.b > overEv.b
            /\ log'.raised = {} => overEv' = overEv
    ]_vars

\* The head has stepped over the right edge and the boundary check fired.
C6_Witness ==
    /\ log.moved # <<>>
    /\ log.moved[1].head.x = 10
    /\ log.raised = {"boundary"}

\* ---------------------------------------------------------- the input step

InputRuns ==
    pc = "pass" /\ "snake_input_moviment" \notin done /\ "snake_input_moviment" \in done'

\* The request the claim describes: the first pressed key in the order Left,
\* Right, Down, Up, or "none".
Precedence == <<"Left", "Right", "Down", "Up">>
Request(pressed) ==
    IF pressed = {} THEN "none"
    ELSE Precedence[Min({i \in 1..4 : Precedence[i] \in pressed})]

\* The heading the claim describes.
Resolved(h, pressed) ==
    IF Request(pressed) = "none" \/ Request(pressed) = opposite(h)
    THEN h
    ELSE Request(pressed)

\* The input system agrees with the claim on every heading and key set.
ResolverAgrees ==
    \A h \in Directions, pressed \in SUBSET Directions :
        Accepted(h, Requested(pressed, h)) = Resolved(h, pressed)

\* The headings the claim allows after an input step from heading h.
Outcomes == [h \in Directions |-> {Resolved(h, pressed) : pressed \in SUBSET Directions}]

\* C7: for every heading and every set of pressed keys the input step leaves
\* the heading when the request is the opposite heading or there is none, and
\* sets it to the request otherwise; it changes the head's heading only.
C7_InputResolvesHeading ==
    /\ []ResolverAgrees
    /\ [][InputRuns =>
            /\ world'[segments[1]].dir \in Outcomes[world[segments[1]].dir]
            /\ world' = [world EXCEPT ![segments[1]].dir = world'[segments[1]].dir]
            /\ UNCHANGED <<segments, lastTail, growthEv, overEv, spawns, despawns,
                           crashed, log>>
       ]_vars

\* The input step has run and turned the head from Up to Right.
C7_Witness ==
    /\ pc = "pass"
    /\ passes = 1
    /\ "snake_input_moviment" \in done
    /\ "snake_movement" \notin done
    /\ world[segments[1]].dir = "Right"

\* ------------------------------------------------------------- game over

\* C9: a pass whose movement step raised GameOverEvents performs exactly one
\* reset and leaves none of them unread; a pass whose movement step raised
\* none performs no reset.
C9_OneResetPerGameOver ==
    AfterPass =>
        /\ log.resets = (IF log.raised # {} THEN 1 ELSE 0)
        /\ overEv = NoEvents

\* A pass in which the movement step raised a GameOverEvent has completed.
C9_Witness == AfterPass /\ log.raised # {} /\ log.resets = 1

\* ------------------------------------------------------ LastTailPosition

\* C11: after a pass in which game_over processed a GameOverEvent,
\* LastTailPosition holds its startup value (None), and no segment was
\* appended to the respawned snake in that pass (the only position a segment
\* can be placed at is one recorded by a movement step of the previous snake).
C11_ResetClearsLastTail ==
    AfterReset =>
        /\ lastTail = {}
        /\ ~(log.appended > 0 /\ Len(segments) > 2)

\* C12: whenever snake_growth is about to run with an unread GrowthEvent,
\* LastTailPosition is set, and no system has panicked.
C12_GrowthReadsRecordedTail ==
    /\ ~crashed
    /\ (Ready("snake_growth") /\ HasEvent(growthEv)) => lastTail # {}

\* snake_growth has handled a GrowthEvent in this pass and placed a segment at
\* the recorded position.
C12_Witness ==
    /\ pc = "pass"
    /\ log.appended = 1
    /\ lastTail # {}
    /\ \E g \in DOMAIN spawns : spawns[g] = SegmentEnt(CHOOSE p \in lastTail : TRUE)

\* ------------------------------------------------------------------ food

\* C13: between passes at most one food entity is live.
C13_AtMostOneFood == AfterPass => Cardinality(Foods(world)) <= 1

\* -------------------------------------------------- order within a pass

\* The steps in which the other systems of the chain run.
EatingRuns == pc = "pass" /\ "snake_eating" \notin done /\ "snake_eating" \in done'
GrowthRuns == pc = "pass" /\ "snake_growth" \notin done /\ "snake_growth" \in done'
GameOverRuns == pc = "pass" /\ "game_over" \notin done /\ "game_over" \in done'

\* What a completed pass did with what its movement step produced.
HandledInPass ==
    /\ log.raised # {} => log.resets = 1
    /\ (log.moved # <<>> /\ log.moved[1].food # {}) =>
          /\ log.queued >= Cardinality(log.moved[1].food)
          /\ log.moved[1].food \cap DOMAIN world = {}
          /\ log.appended >= 1

\* C14: in every pass the input step runs before the movement step, the
\* movement step before the eating check and before game_over, and the eating
\* check before snake_growth; no step but the input step changes a heading,
\* so the movement step uses the heading accepted in its pass; and a
\* GameOverEvent or a food overlap produced by a movement step is handled by
\* game_over, snake_eating and snake_growth before the pass ends.
C14_ScheduleOrder ==
    /\ [](AfterPass => HandledInPass)
    /\ [][/\ InputRuns => log.moved = <<>>
          /\ MovementRuns =>
                /\ "snake_input_moviment" \in done
                /\ "snake_eating" \notin done
                /\ "game_over" \notin done
                /\ log'.moved[1].dir = world[segments[1]].dir
          /\ EatingRuns => ("snake_movement" \in done /\ "snake_growth" \notin done)
          /\ GrowthRuns => "snake_eating" \in done
          /\ GameOverRuns => "snake_movement" \in done
          /\ (pc = "pass" /\ pc' = "pass" /\ ~InputRuns) =>
                \A e \in Heads(world) \cap Heads(world') : world'[e].dir = world[e].dir
         ]_vars

\* A pass has completed whose input step turned the snake and whose movement
\* step, using the new heading, put the head on food: the food is gone and a
\* segment was appended.
C14_Witness ==
    /\ AfterPass
    /\ log.moved # <<>>
    /\ log.moved[1].prev \notin {"-", log.moved[1].dir}
    /\ log.moved[1].food # {}
    /\ log.appended = 1
    /\ log.raised = {}

\* C15: when snake_eating runs, no food spawned by food_spawner in the same
\* pass is live, and none is among the entities it despawns; after the pass
\* that food is live unless game_over despawned it in a reset.
C15_SpawnedFoodNotEatenInPass ==
    /\ [](AfterPass => \A f \in log.spawned : f \in DOMAIN world \/ log.resets > 0)
    /\ [][EatingRuns =>
            /\ log.spawned \cap DOMAIN world = {}
            /\ (despawns' \ despawns) \cap log.spawned = {}
         ]_vars

\* A pass has completed in which the movement step put the head on the cell
\* where food_spawner spawned food: the food is live and nothing was eaten.
C15_Witness ==
    /\ AfterPass
    /\ log.moved # <<>>
    /\ log.resets = 0
    /\ log.queued = 0
    /\ \E f \in log.spawned \cap DOMAIN world : world[f].pos = log.moved[1].head

\* C16: the movement step of a pass never runs after game_over has reset in
\* that pass, and when the eating check runs after the reset no entity of the
\* respawned snake is live (its spawn is still deferred).
C16_RespawnNotEvaluatedInPass ==
    [][/\ MovementRuns => log.resets = 0
       /\ (EatingRuns /\ log.resets > 0) =>
             /\ Range(segments) \cap DOMAIN world = {}
             /\ Range(segments) \subseteq DOMAIN spawns
      ]_vars

\* game_over has reset in this pass and the eating check has not run yet.
C16_Witness ==
    /\ pc = "pass"
    /\ log.resets = 1
    /\ "snake_eating" \notin done
    /\ Len(segments) = 2

\* ------------------------------------------------------------- the arena

InArena(p) == 0 <= p.x /\ p.x < 10 /\ 0 <= p.y /\ p.y < 10

\* The coordinates food_spawner computes, for every random value in [0, 1).
FoodCoordsInArena ==
    \A r \in 0..(RandomDen - 1) :
        /\ FoodCoord(r, ARENA_WIDTH) \in 0..9
        /\ FoodCoord(r, ARENA_HEIGHT) \in 0..9

\* C17: food_spawner's coordinates are in 0..9 for every random value in
\* [0, 1); between passes every live entity and LastTailPosition, when set, is
\* inside [0,10) x [0,10); at any time every entity that is not a head is
\* inside, and a head is outside only in a pass whose movement step raised
\* the boundary GameOverEvent.
C17_PositionsInArena ==
    /\ FoodCoordsInArena
    /\ pc = "boundary" =>
          /\ \A e \in DOMAIN world : InArena(world[e].pos)
          /\ \A p \in lastTail : InArena(p)
    /\ \A e \in DOMAIN world :
          \/ InArena(world[e].pos)
          \/ world[e].kind = "head" /\ pc = "pass" /\ "boundary" \in log.raised
    /\ \A e \in DOMAIN spawns : InArena(spawns[e].pos)

\* A pass whose movement step put the head left of the arena has completed.
C17_Witness ==
    /\ AfterPass
    /\ log.moved # <<>>
    /\ log.moved[1].head.x < 0
    /\ "boundary" \in log.raised

\* ----------------------------------------------------------- directions

\* C18: opposite is an involution without a fixed point on the four
\* directions, in particular on the heading of every live head.
C18_OppositeInvolution ==
    /\ \A d \in Directions : opposite(opposite(d)) = d /\ opposite(d) # d
    /\ \A h \in Heads(world) :
          /\ world[h].dir \in Directions
          /\ opposite(opposite(world[h].dir)) = world[h].dir
          /\ opposite(world[h].dir) # world[h].dir

\* The input step has compared a request with the opposite of the heading
\* Down (reached by two turns) and kept a heading whose opposite is Up.
C18_Witness ==
    /\ pc = "pass"
    /\ "snake_input_moviment" \in done
    /\ \E h \in Heads(world) : world[h].dir = "Down" /\ opposite(world[h].dir) = "Up"

\* C19: the heading used by a movement step is never the opposite of the
\* heading used by the previous movement step of the same snake.
C19_NoDirectReversal ==
    (log.moved # <<>> /\ log.moved[1].prev # "-") =>
        log.moved[1].dir # opposite(log.moved[1].prev)

\* ------------------------------------------------- the list and the world

\* C20: between passes every entity of the list is live, the first one is the
\* only head, and every live snake-segment entity is in the list.
C20_ListIsTheSnake ==
    AfterPass =>
        /\ ListLive
        /\ segments # <<>>
        /\ Heads(world) = {segments[1]}
        /\ SnakeSegmentsOf(world) = Range(segments)
        /\ \A i, j \in DOMAIN segments : segments[i] = segments[j] => i = j

====
